---- MODULE Spec2Model ----
(***************************************************************************)
(* simulocloud.pointcloud: the PointCloud container, its Bounds, and the   *)
(* crop / split / merge / downsample operations, with merge_bounds and the *)
(* .las loader from_las.                                                   *)
(*                                                                         *)
(* A PointCloud's `_arr` is a 3*n array: a triple <<xs, ys, zs>> of three  *)
(* coordinate rows of equal length.  Coordinates are small naturals.       *)
(***************************************************************************)
EXTENDS Integers, Sequences, FiniteSets, TLC

VARIABLES arr,      \* self._arr of the PointCloud the program holds
          old,      \* self._arr as it was when the last call was made
          call,     \* the last call: its name and its arguments
          ret,      \* what the last call returned
          raised,   \* the exception the last call raised, or "none"
          files,    \* the .las files on disk: path -> array, or no array
          read,     \* the paths whose coordinates the last call read
          ids       \* the objects the clouds in ret are, where ret is a list

vars == <<arr, old, call, ret, raised, files, read, ids>>

----------------------------------------------------------------------------
(* Bounds of the model: x coordinates are 0..MaxX (y and z are 0 or 1), a  *)
(* constructed cloud has at most MaxLen points, split gets at most MaxLocs *)
(* locations and merge at most MaxOthers other clouds, and a .las file     *)
(* holds at most MaxFileLen points; merge_bounds gets at most MaxBoxes     *)
(* boxes.                                                                  *)

MaxX == 1
MaxLen == 2
MaxLocs == 2
MaxOthers == 2
MaxFileLen == 2
MaxBoxes == 2

XCoords == 0 .. MaxX
YZCoords == {0, 1}

None == -1         \* Python's None, as a value of a Bounds field

----------------------------------------------------------------------------
(* numpy arrays of shape (3, n) *)

RECURSIVE SeqsUpTo(_, _)
SeqsUpTo(S, n) ==
    IF n = 0 THEN {<<>>}
    ELSE LET shorter == SeqsUpTo(S, n - 1)
         IN  shorter \cup {Append(s, e) : s \in {t \in shorter : Len(t) = n - 1}, e \in S}

PointSet == XCoords \X YZCoords \X YZCoords

\* np.stack([x, y, z]) of the coordinates of a sequence of points
Stack(ps) == << [k \in 1 .. Len(ps) |-> ps[k][1]],
                [k \in 1 .. Len(ps) |-> ps[k][2]],
                [k \in 1 .. Len(ps) |-> ps[k][3]] >>

Arrays(n) == {Stack(ps) : ps \in SeqsUpTo(PointSet, n)}

\* PointCloud.__init__(None): xyz = [[], [], []]
EmptyArr == << <<>>, <<>>, <<>> >>

\* PointCloud.__len__: self._arr.shape[1]
len(a) == Len(a[1])

\* PointCloud.points: the n points, each an (x, y, z)
points(a) == [k \in 1 .. len(a) |-> << a[1][k], a[2][k], a[3][k] >>]

\* a[:, mask] for a boolean mask of length n: in each row, the columns
\* where the mask is True, in order
RECURSIVE MaskRow(_, _)
MaskRow(row, mask) ==
    IF row = <<>> THEN <<>>
    ELSE LET rest == MaskRow(Tail(row), Tail(mask))
         IN  IF Head(mask) THEN <<Head(row)>> \o rest ELSE rest

Take(a, mask) == [i \in 1 .. 3 |-> MaskRow(a[i], mask)]

\* ~mask
Invert(mask) == [k \in 1 .. Len(mask) |-> ~mask[k]]

\* mask.all()
All(mask) == \A k \in 1 .. Len(mask) : mask[k]

----------------------------------------------------------------------------
(* Bounds: (minx, miny, minz, maxx, maxy, maxz), None for no bound *)

XBoundVals == {None} \cup (1 .. MaxX)
YZBoundVals == {None, 1}

Boxes == { <<a, b, c, d, e, f>> :
             a \in XBoundVals, b \in YZBoundVals, c \in YZBoundVals,
             d \in XBoundVals, e \in YZBoundVals, f \in YZBoundVals }

none_bounds == <<None, None, None, None, None, None>>

\* AxisComparisons with the upper bound compared by np.greater: a point on
\* an upper bound would count as in bounds
AxisComparisonsUpperInclusive(a, bounds, i) ==
    (IF bounds[i] # None
       THEN << [k \in 1 .. len(a) |-> a[i][k] < bounds[i]] >>
       ELSE <<>>)
    \o
    (IF bounds[i + 3] # None
       THEN << [k \in 1 .. len(a) |-> a[i][k] > bounds[i + 3]] >>
       ELSE <<>>)

\* the comparisons _iter_points_out_of_bounds yields, in order: for each
\* axis i, np.less(coords, bounds[i]) then np.greater_equal(coords,
\* bounds[i+3]), each only when that bound is not None
AxisComparisons(a, bounds, i) ==
    (IF bounds[i] # None
       THEN << [k \in 1 .. len(a) |-> a[i][k] < bounds[i]] >>
       ELSE <<>>)
    \o
    (IF bounds[i + 3] # None
       THEN << [k \in 1 .. len(a) |-> a[i][k] >= bounds[i + 3]] >>
       ELSE <<>>)

iter_points_out_of_bounds(a, bounds) ==
    AxisComparisons(a, bounds, 1) \o AxisComparisons(a, bounds, 2)
        \o AxisComparisons(a, bounds, 3)

\* oob = np.zeros(len(pc)); for comparison in ...: oob = logical_or(comparison, oob)
RECURSIVE OrAll(_, _)
OrAll(comparisons, oob) ==
    IF comparisons = <<>> THEN oob
    ELSE OrAll(Tail(comparisons),
               [k \in 1 .. Len(oob) |-> Head(comparisons)[k] \/ oob[k]])

points_out_of_bounds(a, bounds) ==
    OrAll(iter_points_out_of_bounds(a, bounds), [k \in 1 .. len(a) |-> FALSE])

----------------------------------------------------------------------------
(* PointCloud.crop *)

\* crop re-initialising the source with the in-bounds columns (~oob)
cropKeepsInBounds(a, bounds, destructive, allow_empty) ==
    LET oob == points_out_of_bounds(a, bounds)
    IN  IF All(oob)
          THEN IF allow_empty
                 THEN [ret |-> EmptyArr, raised |-> "none", self |-> a]
                 ELSE [ret |-> EmptyArr, raised |-> "EmptyPointCloud", self |-> a]
          ELSE [ret    |-> Take(a, Invert(oob)),
                raised |-> "none",
                self   |-> IF destructive THEN Take(a, Invert(oob)) ELSE a]

\* crop that removes the cropped points whatever `destructive` says
cropAlwaysDestructive(a, bounds, destructive, allow_empty) ==
    LET oob == points_out_of_bounds(a, bounds)
    IN  IF All(oob)
          THEN IF allow_empty
                 THEN [ret |-> EmptyArr, raised |-> "none", self |-> a]
                 ELSE [ret |-> EmptyArr, raised |-> "EmptyPointCloud", self |-> a]
          ELSE [ret    |-> Take(a, Invert(oob)),
                raised |-> "none",
                self   |-> Take(a, oob)]

\* crop without the test for an empty result
cropNoEmptyCheck(a, bounds, destructive, allow_empty) ==
    LET oob == points_out_of_bounds(a, bounds)
    IN  [ret    |-> Take(a, Invert(oob)),
         raised |-> "none",
         self   |-> IF destructive THEN Take(a, oob) ELSE a]

\* The outcome of self.crop(bounds, destructive, allow_empty) on a cloud
\* whose _arr is a: the returned cloud's _arr, the exception raised, and
\* self._arr afterwards.
crop(a, bounds, destructive, allow_empty) ==
    LET oob == points_out_of_bounds(a, bounds)
    IN  IF All(oob)
          THEN IF allow_empty
                 THEN [ret |-> EmptyArr, raised |-> "none", self |-> a]
                 ELSE [ret |-> EmptyArr, raised |-> "EmptyPointCloud", self |-> a]
          ELSE [ret    |-> Take(a, Invert(oob)),
                raised |-> "none",
                self   |-> IF destructive THEN Take(a, oob) ELSE a]

----------------------------------------------------------------------------
(* PointCloud.split *)

\* seq[::-1]
Reverse(seq) == [k \in 1 .. Len(seq) |-> seq[Len(seq) + 1 - k]]

\* sorted(locs): ascending, duplicates kept
RECURSIVE Insert(_, _)
Insert(x, seq) ==
    IF seq = <<>> THEN <<x>>
    ELSE IF x <= Head(seq) THEN <<x>> \o seq
    ELSE <<Head(seq)>> \o Insert(x, Tail(seq))

RECURSIVE sorted(_)
sorted(locs) ==
    IF locs = <<>> THEN <<>> ELSE Insert(Head(locs), sorted(Tail(locs)))

\* none_bounds._replace(**{'min'+axis: loc}); axis is 1, 2, 3 for x, y, z
MinBound(axis, loc) == [none_bounds EXCEPT ![axis] = loc]

\* the list comprehension of split: one destructive crop of the copy pc per
\* location, in the order given, stopping at the first that raises
RECURSIVE SplitCrops(_, _, _, _)
SplitCrops(pc, axis, locs, allow_empty) ==
    IF locs = <<>> THEN [pcs |-> <<>>, raised |-> "none", pc |-> pc]
    ELSE LET r == crop(pc, MinBound(axis, Head(locs)), TRUE, allow_empty)
         IN  IF r.raised # "none"
               THEN [pcs |-> <<>>, raised |-> r.raised, pc |-> r.self]
               ELSE LET rest == SplitCrops(r.self, axis, Tail(locs), allow_empty)
                    IN  [pcs    |-> <<r.ret>> \o rest.pcs,
                         raised |-> rest.raised,
                         pc     |-> rest.pc]

\* The objects a split returns.  self is one object; pc = pctype(...) is a
\* new one, and so is the cloud each crop returns: the k-th crop's is
\* object CopyId + k.  pcs is the n crops' clouds, then pc appended, then
\* reversed.
SelfId == 0
CopyId == 1
SplitIds(n, pc) == Reverse(Append([k \in 1 .. n |-> CopyId + k], pc))

\* split with the locations taken in the order given (no sorted())
splitUnsorted(a, axis, locs, allow_empty) ==
    LET c == SplitCrops(a, axis, Reverse(locs), allow_empty)
    IN  IF c.raised # "none"
          THEN [ret |-> <<>>, raised |-> c.raised, self |-> a, ids |-> <<>>]
          ELSE [ret |-> Reverse(Append(c.pcs, c.pc)), raised |-> "none", self |-> a,
                ids |-> SplitIds(Len(c.pcs), CopyId)]

\* the comprehension of split with non-destructive crops
RECURSIVE SplitCropsKeeping(_, _, _, _)
SplitCropsKeeping(pc, axis, locs, allow_empty) ==
    IF locs = <<>> THEN [pcs |-> <<>>, raised |-> "none", pc |-> pc]
    ELSE LET r == crop(pc, MinBound(axis, Head(locs)), FALSE, allow_empty)
         IN  IF r.raised # "none"
               THEN [pcs |-> <<>>, raised |-> r.raised, pc |-> r.self]
               ELSE LET rest == SplitCropsKeeping(r.self, axis, Tail(locs), allow_empty)
                    IN  [pcs    |-> <<r.ret>> \o rest.pcs,
                         raised |-> rest.raised,
                         pc     |-> rest.pc]

splitNotDestructive(a, axis, locs, allow_empty) ==
    LET c == SplitCropsKeeping(a, axis, Reverse(sorted(locs)), allow_empty)
    IN  IF c.raised # "none"
          THEN [ret |-> <<>>, raised |-> c.raised, self |-> a, ids |-> <<>>]
          ELSE [ret |-> Reverse(Append(c.pcs, c.pc)), raised |-> "none", self |-> a,
                ids |-> SplitIds(Len(c.pcs), CopyId)]

\* split cropping the cloud it is called on (pc = self) instead of a copy
splitInPlace(a, axis, locs, allow_empty) ==
    LET c == SplitCrops(a, axis, Reverse(sorted(locs)), allow_empty)
    IN  IF c.raised # "none"
          THEN [ret |-> <<>>, raised |-> c.raised, self |-> c.pc, ids |-> <<>>]
          ELSE [ret |-> Reverse(Append(c.pcs, c.pc)), raised |-> "none", self |-> c.pc,
                ids |-> SplitIds(Len(c.pcs), SelfId)]

\* The outcome of self.split(axis, locs, allow_empty=...) on a cloud whose
\* _arr is a.  pc = pctype(self._arr) copies the array (np.stack), so the
\* crops act on the copy and self._arr stays a.  ids tells which object
\* each returned cloud is.
split(a, axis, locs, allow_empty) ==
    LET c == SplitCrops(a, axis, Reverse(sorted(locs)), allow_empty)
    IN  IF c.raised # "none"
          THEN [ret |-> <<>>, raised |-> c.raised, self |-> a, ids |-> <<>>]
          ELSE [ret |-> Reverse(Append(c.pcs, c.pc)), raised |-> "none", self |-> a,
                ids |-> SplitIds(Len(c.pcs), CopyId)]

----------------------------------------------------------------------------
(* merge, PointCloud.merge, PointCloud.__add__ *)

RECURSIVE SumSizes(_, _)
SumSizes(sizes, n) == IF n = 0 THEN 0 ELSE sizes[n] + SumSizes(sizes, n - 1)

\* merge with the clouds taken last to first
mergeReversed(pointclouds) ==
    LET pcs   == Reverse(pointclouds)
        sizes == [n \in 1 .. Len(pcs) |-> len(pcs[n])]
        i(n)  == SumSizes(sizes, n - 1)
        from(k) == CHOOSE n \in 1 .. Len(pcs) : i(n) < k /\ k <= i(n) + sizes[n]
    IN  [r \in 1 .. 3 |->
            [k \in 1 .. SumSizes(sizes, Len(pcs)) |-> pcs[from(k)][r][k - i(from(k))]]]

\* merge(pointclouds): an array of sum(sizes) columns, filled piece by
\* piece: the n-th cloud's array goes to columns i:j, with i the sum of the
\* sizes before it (columns i+1 .. i+size here) and j = i + size
merge(pointclouds) ==
    LET sizes == [n \in 1 .. Len(pointclouds) |-> len(pointclouds[n])]
        i(n)  == SumSizes(sizes, n - 1)
        from(k) == CHOOSE n \in 1 .. Len(pointclouds) : i(n) < k /\ k <= i(n) + sizes[n]
    IN  [r \in 1 .. 3 |->
            [k \in 1 .. SumSizes(sizes, Len(pointclouds)) |->
                pointclouds[from(k)][r][k - i(from(k))]]]

\* PointCloud.merge: merge([self] + [pc for pc in pointclouds])
mergeMethod(a, pointclouds) == merge(<<a>> \o pointclouds)

\* PointCloud.__add__: np.concatenate([self._arr, other.arr], axis=1)
add(a, other) == [r \in 1 .. 3 |-> a[r] \o other[r]]

----------------------------------------------------------------------------
(* PointCloud.downsample *)

\* the arrays np.random.choice(pop, n, replace=False) can return for
\* 0 <= n <= pop: n different indices out of 1 .. pop, in any order
choice(pop, n) ==
    {idx \in SeqsUpTo(1 .. pop, n) :
        Len(idx) = n /\ \A j, k \in 1 .. n : idx[j] = idx[k] => j = k}

\* self._arr[:, idx]
Columns(a, idx) == [r \in 1 .. 3 |-> [k \in 1 .. Len(idx) |-> a[r][idx[k]]]]

\* The outcome of self.downsample(n) for n >= 0 on a cloud whose _arr is a,
\* idx being what np.random.choice(len(self), min(n, len(self)),
\* replace=False) returned.  On a population of 0, choice raises
\* ValueError in the numpy releases that reject every a <= 0 (`strict`);
\* later ones return the empty array when no sample is asked for.
downsample(a, n, idx, strict) ==
    IF len(a) = 0 /\ strict
      THEN [ret |-> EmptyArr, raised |-> "ValueError", self |-> a]
      ELSE [ret |-> Columns(a, idx), raised |-> "none", self |-> a]

----------------------------------------------------------------------------
(* PointCloud.from_las and the .las files it reads *)

inf == 1000         \* np.inf: above every coordinate and bound

Paths == {"a.las", "b.las"}

Missing == <<>>     \* no file at the path: opening it raises IOError

\* a path that cannot be opened as one: in Python 2, open() and os.stat()
\* raise TypeError on a file name that holds a NUL byte
Unopenable == << <<>> >>

NoBounds == <<>>    \* bounds=None: the keyword was not given

\* min and max of a non-empty row
Min(row) == CHOOSE v \in {row[k] : k \in 1 .. Len(row)} :
                \A k \in 1 .. Len(row) : v <= row[k]
Max(row) == CHOOSE v \in {row[k] : k \in 1 .. Len(row)} :
                \A k \in 1 .. Len(row) : v >= row[k]

\* PointCloud.bounds of a non-empty cloud
pc_bounds(a) == << Min(a[1]), Min(a[2]), Min(a[3]), Max(a[1]), Max(a[2]), Max(a[3]) >>

\* _get_las_bounds: f.header.min + f.header.max, which to_las wrote from
\* the bounds of the cloud it exported
get_las_bounds(fs, fpath) == pc_bounds(fs[fpath])

\* _get_las_npoints: f.header.count
get_las_npoints(fs, fpath) == len(fs[fpath])

\* _get_las_xyz: [f.x, f.y, f.z]
get_las_xyz(fs, fpath) == fs[fpath]

\* InfBounds that leaves None as it is
InfBoundsKeepingNone(b) == b

\* InfBounds(*bounds): None coerced to -inf (mins) and inf (maxes)
InfBounds(b) ==
    [i \in 1 .. 6 |-> IF b[i] = None THEN (IF i <= 3 THEN 0 - inf ELSE inf) ELSE b[i]]

\* merge_bounds giving the first of the boxes
merge_boundsOfFirst(ibounds) == InfBounds(ibounds[1])

\* merge_bounds(ibounds) of one box or more: every box through InfBounds,
\* then the min of each of the columns 0..2 of the array of boxes and the
\* max of each of the columns 3..5
merge_bounds(ibounds) ==
    LET all_bounds == [k \in 1 .. Len(ibounds) |-> InfBounds(ibounds[k])]
        column(i) == [k \in 1 .. Len(ibounds) |-> all_bounds[k][i]]
    IN  [i \in 1 .. 6 |-> IF i <= 3 THEN Min(column(i)) ELSE Max(column(i))]

\* _intersects_1D with B's upper end compared strictly (B[1] < A[0])
intersects_1D_closed(A, B) == ~((B[2] < A[1]) \/ (B[1] >= A[2]))

\* _intersects_1D on (min, max) pairs
intersects_1D(A, B) == ~((B[2] <= A[1]) \/ (B[1] >= A[2]))

intersects_3D(A, B) ==
    \A i \in 1 .. 3 : intersects_1D(<<A[i], A[i + 3]>>, <<B[i], B[i + 3]>>)

\* filter_fpaths that keeps every path
filter_fpathsKeepingAll(fs, fpaths, b) == fpaths

filter_fpaths(fs, fpaths, b) ==
    SelectSeq(fpaths, LAMBDA fpath : intersects_3D(InfBounds(b), get_las_bounds(fs, fpath)))

\* the exception laspy.file.File(fpath) raises, "none" when it opens
ReadError(fs, fpath) ==
    IF fs[fpath] = Missing THEN "IOError"
    ELSE IF fs[fpath] = Unopenable THEN "TypeError"
    ELSE "none"

\* the paths opened one after the other: the first exception raised
RECURSIVE FirstError(_, _)
FirstError(fs, fpaths) ==
    IF fpaths = <<>> THEN "none"
    ELSE IF ReadError(fs, Head(fpaths)) # "none" THEN ReadError(fs, Head(fpaths))
    ELSE FirstError(fs, Tail(fpaths))

\* _combine_las: sizes is a dict keyed by path, so a path given twice is
\* one key; the array has sum(sizes.values()) columns and is filled in the
\* dict's iteration order, which is `order` restricted to the keys.  Each
\* size is the file's header count, get_las_npoints, which is the number
\* of columns get_las_xyz returns.
combine_las(fs, fpaths, order) ==
    LET keys == {fpaths[k] : k \in 1 .. Len(fpaths)}
        items == SelectSeq(order, LAMBDA fpath : fpath \in keys)
    IN  merge([n \in 1 .. Len(items) |-> get_las_xyz(fs, items[n])])

\* from_las after its keyword checks.  With bounds, filter_fpaths opens
\* every path for its header, in the order given.  More than one path
\* left: _combine_las opens each for its size, then reads each.  Otherwise
\* _get_las_xyz(*fpaths) runs inside try ... except(TypeError): with no
\* path left it raises TypeError for its missing argument, and that or any
\* TypeError raised by the read itself is replaced by cls(None).
\* `read` is the set of paths _get_las_xyz got to read the coordinates of.
load_las(fs, fpaths, b, ae, order) ==
    IF b # NoBounds /\ FirstError(fs, fpaths) # "none"
      THEN [ret |-> EmptyArr, raised |-> FirstError(fs, fpaths), read |-> {}]
    ELSE LET kept == IF b # NoBounds THEN filter_fpaths(fs, fpaths, b) ELSE fpaths
             err  == IF Len(kept) = 0 THEN "TypeError" ELSE FirstError(fs, kept)
             swallowed == Len(kept) <= 1 /\ err = "TypeError"
         IN  IF err # "none" /\ ~swallowed
               THEN [ret |-> EmptyArr, raised |-> err, read |-> {}]
             ELSE LET pc == IF Len(kept) > 1 THEN combine_las(fs, kept, order)
                            ELSE IF swallowed THEN EmptyArr
                            ELSE get_las_xyz(fs, kept[1])
                      rd == IF swallowed THEN {}
                            ELSE {kept[k] : k \in 1 .. Len(kept)}
                  IN  IF b # NoBounds
                        THEN LET r == crop(pc, b, FALSE, ae = "True")
                             IN  [ret |-> r.ret, raised |-> r.raised, read |-> rd]
                        ELSE [ret |-> pc, raised |-> "none", read |-> rd]

\* from_las without the check of allow_empty against bounds
from_lasUnchecked(fs, fpaths, b, ae, order) == load_las(fs, fpaths, b, ae, order)

\* The outcome of PointCloud.from_las(*fpaths, bounds=b, allow_empty=ae);
\* ae is "None" when the keyword was not given.
from_las(fs, fpaths, b, ae, order) ==
    IF b = NoBounds /\ ae # "None"
      THEN [ret |-> EmptyArr, raised |-> "TypeError", read |-> {}]
      ELSE load_las(fs, fpaths, b, ae, order)

----------------------------------------------------------------------------
(* The program: a PointCloud, and calls of its methods *)

NoCall == [op |-> "none"]

NoFiles == <<>>

Init ==
    /\ arr \in Arrays(MaxLen)
    /\ old = arr
    /\ call = NoCall
    /\ ret = <<>>
    /\ raised = "none"
    /\ files = NoFiles
    /\ read = {}
    /\ ids = <<>>

\* pc.crop(bounds, destructive=..., allow_empty=...)
Crop ==
    /\ call.op = "none"
    /\ \E bounds \in Boxes, destructive \in BOOLEAN, allow_empty \in BOOLEAN :
        \E r \in {crop(arr, bounds, destructive, allow_empty)} :
              /\ call' = [op |-> "crop", bounds |-> bounds,
                          destructive |-> destructive, allow_empty |-> allow_empty]
              /\ old' = arr
              /\ arr' = r.self
              /\ ret' = r.ret
              /\ raised' = r.raised
    /\ UNCHANGED <<files, read, ids>>

\* the caller is done with the result (or has handled the exception) and
\* goes on with the cloud as the call left it
Continue ==
    /\ call.op # "none"
    /\ call' = NoCall
    /\ old' = arr
    /\ ret' = <<>>
    /\ raised' = "none"
    /\ read' = {}
    /\ ids' = <<>>
    /\ UNCHANGED <<arr, files>>

\* split locations: on the coordinates, so below, inside and above the
\* extent of one cloud or another
LocVals == 0 .. MaxX

\* pc.split(axis, locs, allow_empty=...)
Split ==
    /\ call.op = "none"
    /\ \E axis \in 1 .. 3, locs \in SeqsUpTo(LocVals, MaxLocs), allow_empty \in BOOLEAN :
        \E r \in {split(arr, axis, locs, allow_empty)} :
              /\ call' = [op |-> "split", axis |-> axis, locs |-> locs,
                          allow_empty |-> allow_empty]
              /\ old' = arr
              /\ arr' = r.self
              /\ ret' = r.ret
              /\ raised' = r.raised
              /\ ids' = r.ids
    /\ UNCHANGED <<files, read>>

\* after a split has returned: pcs[j].crop(bounds, destructive=True,
\* allow_empty=...) on one of the clouds of the list, with a lower bound on
\* one axis.  The crop re-initialises the object it is called on: every
\* name of that object, in the list or as the source, sees the new _arr.
CropSegment ==
    /\ call.op = "split" /\ raised = "none"
    /\ \E j \in 1 .. Len(ret), axis \in 1 .. 3, loc \in LocVals, allow_empty \in BOOLEAN :
        \E r \in {crop(ret[j], MinBound(axis, loc), TRUE, allow_empty)} :
              /\ call' = [op |-> "segment.crop", j |-> j,
                          bounds |-> MinBound(axis, loc), allow_empty |-> allow_empty,
                          segments |-> ret]
              /\ ret' = [i \in 1 .. Len(ret) |-> IF ids[i] = ids[j] THEN r.self ELSE ret[i]]
              /\ arr' = IF ids[j] = SelfId THEN r.self ELSE arr
              /\ raised' = r.raised
    /\ UNCHANGED <<old, files, read, ids>>

\* sample sizes: none, some, all, and more than the cloud has
SampleSizes == 0 .. MaxLen + 1

\* pc.downsample(n)
Downsample ==
    /\ call.op = "none"
    /\ \E n \in SampleSizes, strict \in BOOLEAN :
        \E idx \in choice(len(arr), IF n < len(arr) THEN n ELSE len(arr)) :
        \E r \in {downsample(arr, n, idx, strict)} :
              /\ call' = [op |-> "downsample", n |-> n]
              /\ old' = arr
              /\ arr' = r.self
              /\ ret' = r.ret
              /\ raised' = r.raised
    /\ UNCHANGED <<files, read, ids>>

NextDownsample == Downsample \/ Continue

SpecDownsample == Init /\ [][NextDownsample]_vars

\* clouds of the corner points, for the operands of merge and the files
CornerPoints == { <<0, 1, 0>>, <<MaxX, 0, 1>> }

CornerArrays(n) == {Stack(ps) : ps \in SeqsUpTo(CornerPoints, n)}

InitMerge ==
    /\ arr \in CornerArrays(MaxLen)
    /\ old = arr
    /\ call = NoCall
    /\ ret = <<>>
    /\ raised = "none"
    /\ files = NoFiles
    /\ read = {}
    /\ ids = <<>>

\* merge(pointclouds)
MergeFunction ==
    /\ call.op = "none"
    /\ \E pointclouds \in SeqsUpTo(CornerArrays(MaxLen), MaxOthers) :
          /\ call' = [op |-> "merge", pointclouds |-> pointclouds]
          /\ ret' = merge(pointclouds)
    /\ old' = arr
    /\ raised' = "none"
    /\ UNCHANGED <<arr, files, read, ids>>

\* pc.merge(pointclouds)
MergeMethod ==
    /\ call.op = "none"
    /\ \E pointclouds \in SeqsUpTo(CornerArrays(MaxLen), MaxOthers) :
          /\ call' = [op |-> "PointCloud.merge", pointclouds |-> pointclouds]
          /\ ret' = mergeMethod(arr, pointclouds)
    /\ old' = arr
    /\ raised' = "none"
    /\ UNCHANGED <<arr, files, read, ids>>

\* pc + other
Add ==
    /\ call.op = "none"
    /\ \E other \in CornerArrays(MaxLen) :
          /\ call' = [op |-> "__add__", pointclouds |-> <<other>>]
          /\ ret' = add(arr, other)
    /\ old' = arr
    /\ raised' = "none"
    /\ UNCHANGED <<arr, files, read, ids>>

NextMerge == MergeFunction \/ MergeMethod \/ Add \/ Continue

SpecMerge == InitMerge /\ [][NextMerge]_vars

\* boxes for merge_bounds: every side is None or that of the box around
\* all coordinates
SideBoxes ==
    {b \in [1 .. 6 -> {None, 0, MaxX, 1}] :
        \A i \in 1 .. 6 : b[i] \in {None, <<0, 0, 0, MaxX, 1, 1>>[i]}}

InitBounds ==
    /\ arr = EmptyArr
    /\ old = arr
    /\ call = NoCall
    /\ ret = <<>>
    /\ raised = "none"
    /\ files = NoFiles
    /\ read = {}
    /\ ids = <<>>

\* merge_bounds(ibounds)
MergeBounds ==
    /\ call.op = "none"
    /\ \E ibounds \in SeqsUpTo(SideBoxes, MaxBoxes) \ {<<>>} :
          /\ call' = [op |-> "merge_bounds", ibounds |-> ibounds]
          /\ ret' = merge_bounds(ibounds)
    /\ old' = arr
    /\ raised' = "none"
    /\ UNCHANGED <<arr, files, read, ids>>

NextBounds == MergeBounds \/ Continue

SpecBounds == InitBounds /\ [][NextBounds]_vars

\* every path holds a file of one to MaxFileLen points, or none, or
\* cannot be opened
FileContents == (CornerArrays(MaxFileLen) \ {EmptyArr}) \cup {Missing, Unopenable}

InitLas ==
    /\ arr = EmptyArr
    /\ old = arr
    /\ call = NoCall
    /\ ret = <<>>
    /\ raised = "none"
    /\ files \in [Paths -> FileContents]
    /\ read = {}
    /\ ids = <<>>

PathLists == SeqsUpTo(Paths, Cardinality(Paths))

\* the orders in which a dict with these paths as keys may iterate
DictOrders(fpaths) ==
    LET keys == {fpaths[k] : k \in 1 .. Len(fpaths)}
    IN  {o \in SeqsUpTo(keys, Cardinality(keys)) :
            Len(o) = Cardinality(keys) /\ \A f \in keys : \E k \in 1 .. Len(o) : o[k] = f}

\* PointCloud.from_las(*fpaths, bounds=..., allow_empty=...)
FromLas ==
    /\ call.op = "none"
    /\ \E fpaths \in PathLists, b \in Boxes \cup {NoBounds},
          ae \in {"None", "True", "False"} :
        \E order \in DictOrders(fpaths) :
        \E r \in {from_las(files, fpaths, b, ae, order)} :
              /\ call' = [op |-> "from_las", fpaths |-> fpaths, bounds |-> b,
                          allow_empty |-> ae]
              /\ ret' = r.ret
              /\ raised' = r.raised
              /\ read' = r.read
    /\ old' = arr
    /\ UNCHANGED <<arr, files, ids>>

NextLas == FromLas \/ Continue

SpecLas == InitLas /\ [][NextLas]_vars

NextCrop == Crop \/ Continue

NextSplit == Split \/ Continue

SpecSplit == Init /\ [][NextSplit]_vars

NextSplitCrop == Split \/ CropSegment \/ Continue

SpecSplitCrop == InitMerge /\ [][NextSplitCrop]_vars

SpecCrop == Init /\ [][NextCrop]_vars

----------------------------------------------------------------------------
(* What the claims speak of, stated on points, independently of the masks *)

\* p lies in the box: on every axis, at or above the lower bound and
\* strictly below the upper bound, where there is one
InBounds(p, bounds) ==
    \A i \in 1 .. 3 :
        /\ bounds[i] # None => p[i] >= bounds[i]
        /\ bounds[i + 3] # None => p[i] < bounds[i + 3]

PointsIn(ps, bounds) == SelectSeq(ps, LAMBDA p : InBounds(p, bounds))
PointsOut(ps, bounds) == SelectSeq(ps, LAMBDA p : ~InBounds(p, bounds))

\* how many times p occurs among the points ps
Count(p, ps) == Cardinality({k \in 1 .. Len(ps) : ps[k] = p})

SomeIn(ps, bounds) == \E k \in 1 .. Len(ps) : InBounds(ps[k], bounds)

----------------------------------------------------------------------------
(* Claims on crop *)

\* C1: when at least one point is in bounds, crop returns exactly the points
\* that are >= every lower bound and < every upper bound given, in the
\* source's order (so a point on a lower bound is kept, one on an upper
\* bound dropped).
C1_CropKeepsInBounds ==
    (call.op = "crop" /\ SomeIn(points(old), call.bounds)) =>
        /\ raised = "none"
        /\ points(ret) = PointsIn(points(old), call.bounds)

\* a crop that kept a point lying on a lower bound and dropped a point lying
\* on an upper bound
C1_Witness ==
    /\ call.op = "crop" /\ raised = "none"
    /\ \E k \in 1 .. len(old), i \in 1 .. 3 :
          /\ old[i][k] = call.bounds[i]
          /\ Count(points(old)[k], points(ret)) = 1
    /\ \E k \in 1 .. len(old), i \in 1 .. 3 :
          /\ old[i][k] = call.bounds[i + 3]
          /\ Count(points(old)[k], points(ret)) = 0

\* C2: a destructive crop that returns leaves the in-bounds points in the
\* returned cloud and the out-of-bounds points in the source, each in the
\* original order; every original point is in exactly one of the two.
C2_DestructivePartition ==
    (call.op = "crop" /\ call.destructive /\ raised = "none") =>
        LET ps == points(old)
        IN  /\ points(ret) = PointsIn(ps, call.bounds)
            /\ points(arr) = PointsOut(ps, call.bounds)
            /\ len(ret) + len(arr) = len(old)
            /\ \A k \in 1 .. Len(ps) :
                  Count(ps[k], points(ret)) + Count(ps[k], points(arr)) = Count(ps[k], ps)

\* a destructive crop that split the source in two non-empty parts
C2_Witness ==
    /\ call.op = "crop" /\ call.destructive /\ raised = "none"
    /\ len(ret) > 0 /\ len(arr) > 0

\* C3: crop changes the source only when it is destructive and succeeds
\* with a non-empty result; a non-destructive crop, a crop that raises and
\* a crop with every point out of bounds leave the source as it was.
C3_CropFrame ==
    call.op = "crop" =>
        /\ arr # old => (call.destructive /\ raised = "none" /\ len(ret) > 0)
        /\ ~call.destructive => arr = old
        /\ raised # "none" => arr = old
        /\ ~SomeIn(points(old), call.bounds) => arr = old

\* a destructive crop of a non-empty cloud, all of it out of bounds, that
\* returned the empty cloud and left the source whole
C3_Witness ==
    /\ call.op = "crop" /\ call.destructive /\ call.allow_empty
    /\ len(old) > 0 /\ ~SomeIn(points(old), call.bounds)
    /\ raised = "none" /\ ret = EmptyArr /\ arr = old

\* C4: with every point out of bounds crop returns the empty cloud if
\* allow_empty and raises EmptyPointCloud otherwise; with a point in bounds
\* it neither raises nor returns an empty cloud.
C4_CropEmpty ==
    call.op = "crop" =>
        IF SomeIn(points(old), call.bounds)
          THEN raised = "none" /\ len(ret) > 0
          ELSE IF call.allow_empty
                 THEN raised = "none" /\ ret = EmptyArr
                 ELSE raised = "EmptyPointCloud"

\* a crop of a non-empty cloud that raised EmptyPointCloud
C4_Witness ==
    /\ call.op = "crop" /\ len(old) > 0
    /\ ~call.allow_empty /\ raised = "EmptyPointCloud"

----------------------------------------------------------------------------
(* Claims on split *)

\* the locations in ascending order, said without sorting: the k-th is
\* the value v with fewer than k locations below it and at least k
\* locations at or below it
Ascending(locs) ==
    [k \in 1 .. Len(locs) |->
        CHOOSE v \in LocVals :
            /\ Cardinality({n \in 1 .. Len(locs) : locs[n] < v}) < k
            /\ Cardinality({n \in 1 .. Len(locs) : locs[n] <= v}) >= k]

\* v belongs to the j-th of the Len(s)+1 segments cut at the ascending s
InSegment(v, s, j) ==
    /\ j > 1 => v >= s[j - 1]
    /\ j <= Len(s) => v < s[j]

SegmentPoints(ps, axis, s, j) ==
    SelectSeq(ps, LAMBDA p : InSegment(p[axis], s, j))

RECURSIVE SumLens(_)
SumLens(pcs) == IF pcs = <<>> THEN 0 ELSE len(Head(pcs)) + SumLens(Tail(pcs))

RECURSIVE CountIn(_, _)
CountIn(p, pcs) ==
    IF pcs = <<>> THEN 0 ELSE Count(p, points(Head(pcs))) + CountIn(p, Tail(pcs))

\* C5: split with allow_empty=True returns len(locs)+1 clouds, low to high:
\* with s the locations in ascending order, the first holds the points
\* below s[1], the k-th those in [s[k-1], s[k]), the last those at or above
\* the highest location; every permutation of the locations gives the same
\* (each gives what the ascending one gives).
C5_SplitSegments ==
    (call.op = "split" /\ call.allow_empty) =>
        LET s == Ascending(call.locs)
        IN  /\ raised = "none"
            /\ Len(ret) = Len(call.locs) + 1
            /\ \A j \in 1 .. Len(ret) :
                  points(ret[j]) = SegmentPoints(points(old), call.axis, s, j)
            /\ split(old, call.axis, s, TRUE).ret = ret

\* a split at two distinct locations given high before low, with points in
\* the segment between them
C5_Witness ==
    /\ call.op = "split" /\ call.allow_empty /\ raised = "none"
    /\ Len(call.locs) = 2 /\ call.locs[1] > call.locs[2]
    /\ len(ret[2]) > 0 /\ len(ret[2]) < len(old)

\* C6: the segments split returns hold every point of the source exactly
\* once between them: their lengths sum to the source's length and each
\* point occurs in them as often as in the source; between two equal
\* locations the segment is empty.
C6_SplitPartition ==
    (call.op = "split" /\ raised = "none") =>
        LET s == Ascending(call.locs)
            ps == points(old)
        IN  /\ SumLens(ret) = len(old)
            /\ \A k \in 1 .. Len(ps) : CountIn(ps[k], ret) = Count(ps[k], ps)
            /\ \A j \in 1 .. Len(s) - 1 : s[j] = s[j + 1] => ret[j + 1] = EmptyArr

\* a split at the same location twice, with points below and above it
C6_Witness ==
    /\ call.op = "split" /\ raised = "none"
    /\ Len(call.locs) = 2 /\ call.locs[1] = call.locs[2]
    /\ len(ret[1]) > 0 /\ len(ret[3]) > 0

\* C7: split with allow_empty=False never returns an empty cloud: it
\* raises EmptyPointCloud or every returned segment, the lowest included,
\* has a point.
C7_SplitNoEmptySegment ==
    (/\ call.op = "split" /\ ~call.allow_empty /\ raised = "none"
     /\ len(old) > 0 /\ Len(call.locs) > 0) =>
        \A j \in 1 .. Len(ret) : len(ret[j]) > 0

\* C17: split never changes the cloud it is called on, whether it
\* returns or raises EmptyPointCloud: the source holds the same points in
\* the same order as before; and a destructive crop of one of the returned
\* clouds afterwards changes neither the source nor any other returned
\* cloud.
C17_SplitLeavesSource ==
    /\ call.op = "split" => arr = old
    /\ call.op = "segment.crop" =>
          /\ arr = old
          /\ \A i \in 1 .. Len(ret) : i # call.j => ret[i] = call.segments[i]

\* a cloud of two points split between them, then the lowest segment, the
\* last copy the split worked on, emptied by a destructive crop
C17_Witness ==
    /\ call.op = "segment.crop" /\ call.j = 1 /\ raised = "none"
    /\ Len(ret) = 2 /\ len(old) = 2
    /\ len(call.segments[1]) = 1 /\ len(call.segments[2]) = 1
    /\ ret[1] = EmptyArr

----------------------------------------------------------------------------
(* Claims on merge *)

RECURSIVE ConcatPoints(_)
ConcatPoints(pcs) ==
    IF pcs = <<>> THEN <<>> ELSE points(Head(pcs)) \o ConcatPoints(Tail(pcs))

\* the clouds the last merge took, in order: for the method and for +,
\* self first
Operands ==
    IF call.op = "merge" THEN call.pointclouds ELSE <<old>> \o call.pointclouds

IsMerge == call.op \in {"merge", "PointCloud.merge", "__add__"}

\* C8: merge, PointCloud.merge and + return the inputs' points one cloud
\* after the other in input order (self first), every point kept, as many
\* as the input lengths sum to, and leave the cloud they are called on as
\* it was.
C8_MergeConcatenates ==
    IsMerge =>
        /\ raised = "none"
        /\ points(ret) = ConcatPoints(Operands)
        /\ len(ret) = SumLens(Operands)
        /\ arr = old

\* a merge of a cloud with an empty cloud and then a cloud holding a point
\* the first also holds
C8_Witness ==
    /\ call.op = "PointCloud.merge" /\ Len(call.pointclouds) = 2
    /\ len(old) = 2 /\ points(old)[1] # points(old)[2]
    /\ call.pointclouds[1] = EmptyArr
    /\ len(call.pointclouds[2]) > 0
    /\ points(call.pointclouds[2])[1] = points(old)[2]
    /\ len(ret) = len(old) + len(call.pointclouds[2])

----------------------------------------------------------------------------
(* Claims on from_las *)

AllRead(fpaths) == FirstError(files, fpaths) = "none"

\* C9: from_las with bounds B gives what loading the same paths without
\* bounds and cropping the result to B gives: the same points (whatever
\* their order), or the same failure.
C9_FromLasBoundsIsLoadThenCrop ==
    (call.op = "from_las" /\ call.bounds # NoBounds /\ AllRead(call.fpaths)) =>
        \A order \in DictOrders(call.fpaths) :
            LET loaded == from_las(files, call.fpaths, NoBounds, "None", order)
                r == crop(loaded.ret, call.bounds, FALSE, call.allow_empty = "True")
            IN  /\ raised = r.raised
                /\ len(ret) = len(r.ret)
                /\ \A p \in CornerPoints :
                      Count(p, points(ret)) = Count(p, points(r.ret))

RECURSIVE FilePoints(_)
FilePoints(fpaths) ==
    IF fpaths = <<>> THEN <<>>
    ELSE points(files[Head(fpaths)]) \o FilePoints(Tail(fpaths))

\* C10: from_las of more than one path holds each given path's points,
\* path after path in the order given, a path given twice twice.
C10_FromLasConcatenates ==
    (/\ call.op = "from_las" /\ call.bounds = NoBounds /\ raised = "none"
     /\ Len(call.fpaths) > 1) =>
        points(ret) = FilePoints(call.fpaths)

\* the last call was from_las with allow_empty given and bounds not
ArgError == call.bounds = NoBounds /\ call.allow_empty # "None"

\* C11: from_las without bounds but with allow_empty given (True or False)
\* raises TypeError before any path is filtered or read, so whatever the
\* paths hold and with nothing read; with neither keyword, or with bounds,
\* it raises no TypeError of its own: one is raised only if opening a path
\* raised it.
C11_FromLasArgCheck ==
    call.op = "from_las" =>
        /\ ArgError => (raised = "TypeError" /\ read = {})
        /\ (~ArgError /\ raised = "TypeError") =>
              FirstError(files, call.fpaths) = "TypeError"

\* allow_empty=False without bounds, on a path that holds no file and a
\* path that holds one
C11_Witness ==
    /\ call.op = "from_las" /\ ArgError /\ call.allow_empty = "False"
    /\ Len(call.fpaths) = 2
    /\ files[call.fpaths[1]] = Missing
    /\ ReadError(files, call.fpaths[2]) = "none"
    /\ raised = "TypeError"

\* C12: from_las never swallows a failed read: past the keyword check, if
\* opening one of the paths fails, the call raises that error and returns
\* no cloud, when one path is given as when several are.
C12_FromLasReadFailurePropagates ==
    (call.op = "from_las" /\ ~ArgError /\ ~AllRead(call.fpaths)) =>
        raised = FirstError(files, call.fpaths)

\* the header bounds of none of the paths intersect the bounds of the call
NoPathIntersects ==
    \A k \in 1 .. Len(call.fpaths) :
        ~intersects_3D(InfBounds(call.bounds), get_las_bounds(files, call.fpaths[k]))

\* C16: with bounds given and every path (if any) dropped by the
\* prefilter, from_las builds the empty cloud without reading the
\* coordinates of any file; it then returns a cloud of length 0 if
\* allow_empty is true, and raises EmptyPointCloud if allow_empty is false
\* or was not given.
C16_FromLasNothingLeft ==
    (/\ call.op = "from_las" /\ call.bounds # NoBounds
     /\ AllRead(call.fpaths) /\ NoPathIntersects) =>
        /\ read = {}
        /\ call.allow_empty = "True" => (raised = "none" /\ len(ret) = 0)
        /\ call.allow_empty \in {"False", "None"} => raised = "EmptyPointCloud"

\* two files of points, both outside the bounds, and allow_empty=True
C16_Witness ==
    /\ call.op = "from_las" /\ call.bounds # NoBounds
    /\ call.fpaths = <<"a.las", "b.las">>
    /\ AllRead(call.fpaths) /\ NoPathIntersects
    /\ call.allow_empty = "True"
    /\ raised = "none" /\ ret = EmptyArr /\ read = {}

----------------------------------------------------------------------------
(* Claims on downsample *)

\* C13: downsample(n), n >= 0, returns min(n, len) points, each the point
\* at an index of the source of its own (no index taken twice), and leaves
\* the source as it was; for n >= len the result holds every point of the
\* source as many times as the source does.
C13_DownsampleSamples ==
    call.op = "downsample" =>
        LET m  == IF call.n < len(old) THEN call.n ELSE len(old)
            ps == points(old)
        IN  /\ raised = "none"
            /\ len(ret) = m
            /\ arr = old
            /\ \E idx \in choice(len(old), m) : ret = Columns(old, idx)
            /\ call.n >= len(old) =>
                  \A k \in 1 .. Len(ps) : Count(ps[k], points(ret)) = Count(ps[k], ps)

\* for clouds that hold a point, what C13 says holds: the raise is on the
\* empty cloud only
DownsampleOfNonEmpty == len(old) > 0 => C13_DownsampleSamples

----------------------------------------------------------------------------
(* Claims on merge_bounds *)

Smaller(x, y) == IF x <= y THEN x ELSE y
Larger(x, y) == IF x >= y THEN x ELSE y

\* C14: for clouds a and b that each hold a point, the bounds of
\* merge([a, b]), of a.merge([b]) and of a + b are
\* merge_bounds([a.bounds, b.bounds]): each minimum the smaller of the two
\* minima, each maximum the larger of the two maxima; and the merged cloud
\* has len(a) + len(b) points.
C14_MergedBounds ==
    (/\ IsMerge /\ Len(Operands) = 2
     /\ len(Operands[1]) > 0 /\ len(Operands[2]) > 0) =>
        LET a == pc_bounds(Operands[1])
            b == pc_bounds(Operands[2])
        IN  /\ pc_bounds(ret) = merge_bounds(<<a, b>>)
            /\ \A i \in 1 .. 3 :
                  /\ pc_bounds(ret)[i] = Smaller(a[i], b[i])
                  /\ pc_bounds(ret)[i + 3] = Larger(a[i + 3], b[i + 3])
            /\ len(ret) = len(Operands[1]) + len(Operands[2])

\* a + b where a has the lowest x and z and b the lowest y, each of one
\* point only
C14_Witness ==
    /\ call.op = "__add__"
    /\ points(old) = << <<0, 1, 0>> >>
    /\ points(call.pointclouds[1]) = << <<MaxX, 0, 1>> >>
    /\ pc_bounds(ret) = <<0, 0, 0, MaxX, 1, 1>>

\* C15: merge_bounds of exactly one box returns that box unchanged,
\* whatever the box, None sides included.
C15_MergeBoundsOfOneUnchanged ==
    (call.op = "merge_bounds" /\ Len(call.ibounds) = 1) =>
        ret = call.ibounds[1]

\* C15 as the code has it: merge_bounds of exactly one box returns the box
\* with every side that is not None unchanged, every None minimum as -inf
\* and every None maximum as inf; a box without a None side comes back
\* unchanged.
C15_MergeBoundsOfOneCoerced ==
    (call.op = "merge_bounds" /\ Len(call.ibounds) = 1) =>
        LET b == call.ibounds[1]
        IN  /\ \A i \in 1 .. 6 : b[i] # None => ret[i] = b[i]
            /\ \A i \in 1 .. 3 : b[i] = None => ret[i] = 0 - inf
            /\ \A i \in 4 .. 6 : b[i] = None => ret[i] = inf
            /\ (\A i \in 1 .. 6 : b[i] # None) => ret = b

\* one box with a None minimum, a None maximum and the other sides given
C15_Witness ==
    /\ call.op = "merge_bounds" /\ Len(call.ibounds) = 1
    /\ call.ibounds[1] = <<None, 0, 0, MaxX, None, 1>>
    /\ ret = <<0 - inf, 0, 0, MaxX, inf, 1>>

====
